---- MODULE Spec2Model ----
(***************************************************************************)
(* A model of npm_detector.py: the compromised-list loader, the global and *)
(* local installed-package enumerators, the project discoverer, the        *)
(* matcher, the report writer and the orchestrator main().                 *)
(*                                                                         *)
(* Text is modelled as sequences of one-character strings, so that         *)
(* str.strip() and case-sensitive equality are computed, not assumed.      *)
(* A Python dict is modelled as a sequence of <<key, value>> pairs with    *)
(* distinct keys, in insertion order.  A function that can raise returns a *)
(* record [raised |-> BOOLEAN, value |-> ...].                             *)
(***************************************************************************)
EXTENDS Integers, Sequences, FiniteSets, TLC

VARIABLES
    pc,          \* position of main(): start, load, probe, global, discover, local, write, exit
    csvIsFile,   \* os.path.isfile(args.csv)
    csvFile,     \* content of the --csv file: [header, rows]
    roots,       \* args.roots
    manifests,   \* filesystem: the directories that hold a package.json
    impacted,    \* main's local `impacted`
    projects,    \* main's local `projects`
    idx,         \* position of the `for proj in projects` loop (1-based)
    cwd,         \* process working directory, set by os.chdir
    findings,    \* main's local `findings`
    scope,       \* what the last enumerate-and-match step read and produced
    report,      \* content of FINDINGS_CSV: [exists, header, rows]
    writes,      \* number of calls of write_findings_csv
    npmCalls,    \* the commands passed to run(), in order
    exitCode,    \* process exit status (NotExited while running)
    outcome      \* why the process ended

vars == <<pc, csvIsFile, csvFile, roots, manifests, impacted, projects, idx, cwd,
          findings, scope, report, writes, npmCalls, exitCode, outcome>>

-----------------------------------------------------------------------------
(* Bounds of the model *)

MaxRows == 2        \* data rows of a compromised-list file
MaxRoots == 2       \* entries of --roots
MaxDeps == 2        \* packages in one package-manager listing
MaxImpacted == 2    \* entries of a compromised list handed to the matcher

-----------------------------------------------------------------------------
(* Generic helpers *)

NotExited == -1
None == <<"None">>      \* Python's None in place of a text (csv.DictReader's restval)
NoKey == ""             \* dict.get finding no key; falsy for `or`, like None

\* the sequences over S of length at most n
SeqsUpTo(S, n) == UNION {[1..k -> S] : k \in 0..n}

Range(s) == {s[i] : i \in DOMAIN s}

\* str.strip(): drop leading and trailing whitespace
RECURSIVE LStrip(_)
LStrip(s) == IF s # <<>> /\ Head(s) = " " THEN LStrip(Tail(s)) ELSE s

RECURSIVE RStrip(_)
RStrip(s) == IF s # <<>> /\ s[Len(s)] = " " THEN RStrip(SubSeq(s, 1, Len(s) - 1)) ELSE s

Strip(s) == RStrip(LStrip(s))

\* dict access on a sequence of <<key, value>> pairs with distinct keys
DictKeys(d) == {d[i][1] : i \in DOMAIN d}
\* d[k] = v : replace in place when the key exists, else append
DictSet(d, k, v) ==
    IF k \in DictKeys(d)
    THEN [i \in DOMAIN d |-> IF d[i][1] = k THEN <<k, v>> ELSE d[i]]
    ELSE Append(d, <<k, v>>)

-----------------------------------------------------------------------------
(* load_impacted_packages *)

\* str.lower() on the column headers the model uses
HeaderLower(h) ==
    CASE h \in {"package_name", "Package_Name", "PACKAGE_NAME"} -> "package_name"
      [] h \in {"name", "Name", "NAME"} -> "name"
      [] h \in {"version", "Version", "VERSION"} -> "version"
      [] OTHER -> h

\* headers = {h.lower(): h for h in fieldnames}; headers.get(k): the last field
\* whose lower-cased name is k
HeadersGet(fieldnames, k) ==
    LET hits == {i \in DOMAIN fieldnames : HeaderLower(fieldnames[i]) = k}
    IN  IF hits = {} THEN NoKey
        ELSE fieldnames[CHOOSE i \in hits : \A j \in hits : j <= i]

\* name_key = headers.get("package_name") or headers.get("name") or "package_name"
NameKey(fieldnames) ==
    IF HeadersGet(fieldnames, "package_name") # NoKey
    THEN HeadersGet(fieldnames, "package_name")
    ELSE IF HeadersGet(fieldnames, "name") # NoKey
         THEN HeadersGet(fieldnames, "name")
         ELSE "package_name"

\* version_key = headers.get("version") or "version"
VersionKey(fieldnames) ==
    IF HeadersGet(fieldnames, "version") # NoKey
    THEN HeadersGet(fieldnames, "version")
    ELSE "version"

\* row.get(key, "") on the dict csv.DictReader builds for one row: a field the
\* row is too short for is None, a key that is no column gives the default
RowGet(fieldnames, row, key) ==
    LET hits == {i \in DOMAIN fieldnames : fieldnames[i] = key}
    IN  IF hits = {} THEN <<>>
        ELSE LET i == CHOOSE i \in hits : \A j \in hits : j <= i
             IN  IF i <= Len(row) THEN row[i] ELSE None

\* the loop body for one row: "raise" (None.strip()), "skip", or the entry
LoadRow(fieldnames, row) ==
    LET name == RowGet(fieldnames, row, NameKey(fieldnames))
        ver  == RowGet(fieldnames, row, VersionKey(fieldnames))
    IN  IF name = None THEN [kind |-> "raise"]
        ELSE IF Strip(name) = <<>> THEN [kind |-> "skip"]
        ELSE [kind |-> "entry",
              entry |-> [package_name |-> Strip(name),
                         version |-> IF ver = None THEN <<>> ELSE Strip(ver)]]

RECURSIVE LoadRows(_, _, _)
LoadRows(fieldnames, rows, acc) ==
    IF rows = <<>> THEN [raised |-> FALSE, value |-> acc]
    ELSE IF Head(rows) = <<>>
         THEN LoadRows(fieldnames, Tail(rows), acc)     \* DictReader skips blank rows
         ELSE LET r == LoadRow(fieldnames, Head(rows))
              IN  CASE r.kind = "raise" -> [raised |-> TRUE, value |-> <<>>]
                    [] r.kind = "skip"  -> LoadRows(fieldnames, Tail(rows), acc)
                    [] OTHER -> LoadRows(fieldnames, Tail(rows), Append(acc, r.entry))

load_impacted_packages(file) == LoadRows(file.header, file.rows, <<>>)

\* Inputs: compromised-list files
CsvFields == {<<>>, <<" ">>, <<" ", "a", " ">>, <<"A">>, <<"1">>}
CsvHeaders == {<<"package_name", "version">>, <<"Name", "Version">>,
               <<"VERSION", "NAME">>, <<"PACKAGE_NAME">>,
               <<"name", "package_name">>, <<"pkg", "version">>}
CsvRowsOf(header) == SeqsUpTo(CsvFields, Len(header))
\* the data rows under a header; a file without a header row has none
CsvRowLists(header) ==
    IF header = <<>> THEN {<<>>} ELSE SeqsUpTo(CsvRowsOf(header), MaxRows)

-----------------------------------------------------------------------------
(* run() and the parsing of a package-manager listing *)

\* What run(cmd) returns: [code, out].  out (stdout, stripped) is modelled by its
\* structure: optional leading text that holds no "{" (noise), followed by a
\* payload: nothing, text that starts with "{" and is not JSON ("broken"), or a
\* JSON object, with or without a "dependencies" member.  deps is the object's
\* "dependencies" as <<name, info>> pairs; info is <<>> (no "version" member) or
\* <<version>>.
RunResult(code, noise, kind, deps) ==
    [code |-> code, out |-> [noise |-> noise, kind |-> kind, deps |-> deps]]

\* `not out`
OutEmpty(out) == ~out.noise /\ out.kind = "none"

\* json.loads(text): the whole text must be one JSON value
JsonLoads(text) ==
    IF ~text.noise /\ text.kind \in {"object", "object_nodeps"}
    THEN [raised |-> FALSE, value |-> text]
    ELSE [raised |-> TRUE, value |-> text]

\* out.find("{") # -1
HasBrace(out) == out.kind # "none"

\* out[json_start:]
FromBrace(out) == [out EXCEPT !.noise = FALSE]

\* data.get("dependencies", {}) or {}
DepsOf(data) == IF data.kind = "object" THEN data.deps ELSE <<>>

\* {name: info.get("version", "") for name, info in deps.items()}
VersionsOf(deps) ==
    [i \in DOMAIN deps |-> <<deps[i][1], IF deps[i][2] = <<>> THEN <<>> ELSE deps[i][2][1]>>]

\* The listing code shared by get_global_npm_list and the fallback of
\* get_local_npm_list.  The retry from the first "{" runs inside the except
\* clause: a JSONDecodeError it raises is not caught.
ParseListing(res) ==
    IF res.code # 0 /\ OutEmpty(res.out) THEN [raised |-> FALSE, value |-> <<>>]
    ELSE IF OutEmpty(res.out) THEN [raised |-> FALSE, value |-> <<>>]
    ELSE LET strict == JsonLoads(res.out)
         IN  IF ~strict.raised
             THEN [raised |-> FALSE, value |-> VersionsOf(DepsOf(strict.value))]
             ELSE IF HasBrace(res.out)
                  THEN LET retry == JsonLoads(FromBrace(res.out))
                       IN  IF retry.raised
                           THEN [raised |-> TRUE, value |-> <<>>]
                           ELSE [raised |-> FALSE, value |-> VersionsOf(DepsOf(retry.value))]
                  ELSE [raised |-> FALSE, value |-> <<>>]

get_global_npm_list(res) == ParseListing(res)

\* code == 0 and bool(out.strip())
npm_available(res) == res.code = 0 /\ ~OutEmpty(res.out)

-----------------------------------------------------------------------------
(* get_local_npm_list *)

\* project_dir / "node_modules": [isDir, entries], entries in iterdir() order
NodeModules(isDir, entries) == [isDir |-> isDir, entries |-> entries]
NoDir == NodeModules(FALSE, <<>>)

\* A manifest file (package.json) of an installed package:
\*   state "absent" (no such file), "bad" (unreadable or malformed) or "ok";
\*   name: <<>> (no "name" member) or <<name>>; version likewise.
Manifest(state, name, version) == [state |-> state, name |-> name, version |-> version]

\* An entry of node_modules: its directory name, its own manifest, and (for an
\* "@scope" directory) its sub-directories, each [dirname, manifest].
Entry(dirname, manifest, subs) == [dirname |-> dirname, manifest |-> manifest, subs |-> subs]

\* the try block: read one manifest into deps; any exception leaves deps alone
ReadManifest(deps, dirname, m) ==
    IF m.state # "ok" THEN deps
    ELSE DictSet(deps,
                 IF m.name = <<>> THEN dirname ELSE m.name[1],
                 IF m.version = <<>> THEN <<>> ELSE m.version[1])

RECURSIVE ReadSubs(_, _)
ReadSubs(deps, subs) ==
    IF subs = <<>> THEN deps
    ELSE ReadSubs(ReadManifest(deps, Head(subs).dirname, Head(subs).manifest), Tail(subs))

RECURSIVE ReadNodeModules(_, _)
ReadNodeModules(deps, entries) ==
    IF entries = <<>> THEN deps
    ELSE LET e == Head(entries)
         IN  IF Head(e.dirname) = "."
             THEN ReadNodeModules(deps, Tail(entries))
             ELSE IF Head(e.dirname) = "@"
                  THEN ReadNodeModules(ReadSubs(deps, e.subs), Tail(entries))
                  ELSE ReadNodeModules(ReadManifest(deps, e.dirname, e.manifest), Tail(entries))

\* deps after the `if node_modules.is_dir()` block
ManifestDeps(nm) == IF ~nm.isDir THEN <<>> ELSE ReadNodeModules(<<>>, nm.entries)

\* A faulty variant: the early `return deps` is missing
AlwaysInvokesNpm(nm) == TRUE

\* whether run(["npm", "ls", ...]) is reached
LocalInvokesNpm(nm) == ManifestDeps(nm) = <<>>

get_local_npm_list(nm, res) ==
    IF ~LocalInvokesNpm(nm)
    THEN [raised |-> FALSE, value |-> ManifestDeps(nm)]
    ELSE ParseListing(res)

-----------------------------------------------------------------------------
(* discover_package_json_roots *)

Home == <<"home">>

\* Path(os.path.expanduser(r)).resolve(): "~" first, then "." and ".." removed
RECURSIVE Normalize(_, _)
Normalize(done, rest) ==
    IF rest = <<>> THEN done
    ELSE CASE Head(rest) = "."  -> Normalize(done, Tail(rest))
           [] Head(rest) = ".." -> Normalize(IF done = <<>> THEN <<>>
                                             ELSE SubSeq(done, 1, Len(done) - 1), Tail(rest))
           [] OTHER -> Normalize(Append(done, Head(rest)), Tail(rest))

ResolveRoot(r) ==
    IF r # <<>> /\ Head(r) = "~" THEN Normalize(<<>>, Home \o Tail(r)) ELSE Normalize(<<>>, r)

\* The directories of the modelled filesystem, in the order a walk visits them
WalkOrder == << <<"home">>,
                <<"home", "r">>,
                <<"home", "r", "p">>,
                <<"home", "r", "p", "node_modules">>,
                <<"home", "r", "p", "node_modules", "d">>,
                <<"home", "r", "q">> >>
Dirs == Range(WalkOrder)

IsPrefix(a, b) == Len(a) <= Len(b) /\ SubSeq(b, 1, Len(a)) = a

\* root.rglob("package.json"): the manifests at or below root, in walk order
RGlob(root, fs) ==
    SelectSeq(WalkOrder, LAMBDA d : IsPrefix(root, d) /\ d \in fs)

\* A faulty variant: only the manifest's own directory is tested: p.parent.name
ParentIsNodeModules(d) == d # <<>> /\ d[Len(d)] = "node_modules"

\* "node_modules" in p.parts, for p = d / "package.json"
UnderNodeModules(d) == "node_modules" \in Range(d)

RECURSIVE discover_package_json_roots(_, _)
discover_package_json_roots(rs, fs) ==
    IF rs = <<>> THEN <<>>
    ELSE LET root == ResolveRoot(Head(rs))
             here == IF root \notin Dirs THEN <<>>
                     ELSE SelectSeq(RGlob(root, fs), LAMBDA d : ~UnderNodeModules(d))
         IN  here \o discover_package_json_roots(Tail(rs), fs)

-----------------------------------------------------------------------------
(* compare and write_findings_csv *)

\* A faulty variant: names compared after str.lower()
LowerText(t) == [i \in DOMAIN t |-> IF t[i] = "A" THEN "a" ELSE t[i]]
InImpactedIgnoringCase(imp, name) ==
    \E i \in DOMAIN imp : LowerText(imp[i].package_name) = LowerText(name)

InImpacted(imp, name) == \E i \in DOMAIN imp : imp[i].package_name = name

\* next((i["version"] for i in impacted if i["package_name"] == name), "")
ExpectedVersion(imp, name) ==
    LET hits == {i \in DOMAIN imp : imp[i].package_name = name}
    IN  IF hits = {} THEN <<>>
        ELSE imp[CHOOSE i \in hits : \A j \in hits : i <= j].version

RECURSIVE compare(_, _, _)
compare(imp, installed, location) ==
    IF installed = <<>> THEN <<>>
    ELSE LET name == Head(installed)[1]
             ver  == Head(installed)[2]
             rest == compare(imp, Tail(installed), location)
         IN  IF InImpacted(imp, name)
             THEN <<[package_name |-> name,
                     installed_version |-> ver,
                     impacted_version_from_csv |-> ExpectedVersion(imp, name),
                     location |-> location]>> \o rest
             ELSE rest

\* fieldnames of the csv.DictWriter
HeaderRow == <<"package_name", "installed_version", "impacted_version_from_csv", "location">>

\* writer.writerow(row): the four fields in fieldnames order
ReportRow(f) == <<f.package_name, f.installed_version, f.impacted_version_from_csv, f.location>>

\* The content of FINDINGS_CSV: [exists, header, rows].  write_findings_csv
\* opens the file with "w", writes the header, then one row per finding.
ReportFile(exists, header, rows) == [exists |-> exists, header |-> header, rows |-> rows]
write_findings_csv(fs) == ReportFile(TRUE, HeaderRow, [i \in DOMAIN fs |-> ReportRow(fs[i])])

-----------------------------------------------------------------------------
(* Inputs *)

Names == {<<"a">>, <<"A">>, <<"b">>}
Versions == {<<"1">>, <<"2">>}
Infos == {<<>>} \cup {<<v>> : v \in Versions}

DistinctKeys(d) == \A i, j \in DOMAIN d : d[i][1] = d[j][1] => i = j

\* "dependencies" objects of a listing: distinct names, JSON order
DepLists == {d \in SeqsUpTo(Names \X Infos, MaxDeps) : DistinctKeys(d)}

\* run() gives 127 (or 1) and no output when the command cannot be started
AllRuns ==
    {RunResult(c, n, k, <<>>) : c \in {0, 1}, n \in BOOLEAN, k \in {"none", "broken", "object_nodeps"}}
    \cup {RunResult(c, n, "object", d) : c \in {0, 1}, n \in BOOLEAN, d \in DepLists}
    \cup {RunResult(127, FALSE, "none", <<>>)}

\* results of the version query: a version text, nothing, or a failure
ProbeRuns == {RunResult(0, TRUE, "none", <<>>), RunResult(0, FALSE, "none", <<>>),
              RunResult(1, TRUE, "none", <<>>), RunResult(127, FALSE, "none", <<>>)}

MainRuns == {RunResult(127, FALSE, "none", <<>>),
             RunResult(0, FALSE, "object", << <<<<"a">>, <<<<"1">>>>>>, <<<<"b">>, <<>>>> >>),
             RunResult(1, TRUE, "object", << <<<<"A">>, <<<<"2">>>>>> >>),
             RunResult(0, TRUE, "none", <<>>),
             RunResult(0, TRUE, "broken", <<>>)}

ImpactedEntries == [package_name : Names, version : {<<>>} \cup Versions]
ImpactedLists == SeqsUpTo(ImpactedEntries, MaxImpacted) \ {<<>>}

Manifests == {Manifest("absent", <<>>, <<>>), Manifest("bad", <<>>, <<>>),
              Manifest("ok", <<>>, <<>>), Manifest("ok", <<<<"a">>>>, <<<<"1">>>>),
              Manifest("ok", <<<<"A">>>>, <<<<"2">>>>)}

NmEntries ==
    {Entry(<<"b">>, m, <<>>) : m \in Manifests}
    \cup {Entry(<<".", "b">>, Manifest("ok", <<<<"b">>>>, <<<<"1">>>>), <<>>)}
    \cup {Entry(<<"@", "s">>, Manifest("ok", <<<<"b">>>>, <<<<"1">>>>), subs) :
            subs \in {<<>>, <<Entry(<<"a">>, Manifest("ok", <<>>, <<<<"2">>>>), <<>>)>>,
                      <<Entry(<<"a">>, Manifest("bad", <<>>, <<>>), <<>>),
                        Entry(<<"b">>, Manifest("ok", <<<<"A">>>>, <<>>), <<>>)>>}}

MaxEntries == 2     \* entries of one node_modules directory
AllNms == {NoDir} \cup {NodeModules(TRUE, es) : es \in SeqsUpTo(NmEntries, MaxEntries)}

MainNms == {NoDir,
            NodeModules(TRUE, <<Entry(<<"a">>, Manifest("ok", <<>>, <<<<"2">>>>), <<>>)>>)}

RootArgs == {<<"~", "r">>, <<"home", "r", "p">>, <<"home", "r", "p", "..">>,
             <<"home", "missing">>, <<"home", ".", "r", "p", "node_modules">>}
RootLists == SeqsUpTo(RootArgs, MaxRoots)

\* directories that may hold a package.json
ManifestDirs == Dirs \ {<<"home">>}

EmptyFile == [header |-> <<>>, rows |-> <<>>]
MainCsvFiles ==
    {EmptyFile,
     [header |-> <<"package_name", "version">>, rows |-> << <<<<" ">>, <<"1">>>> >>],
     [header |-> <<"Name", "Version">>, rows |-> << <<<<" ", "a", " ">>, <<"1">>>>, <<<<"A">>>> >>],
     [header |-> <<"VERSION", "NAME">>, rows |-> << <<<<"1">>>>, <<<<"1">>, <<"A">>>> >>]}

MainRoots == {<<>>, << <<"~", "r">> >>, << <<"~", "r">>, <<"home", "r", "p", "..">> >>,
              << <<"home", "missing">>, <<"home", "r", "p">> >>}

MainManifests == {{}, {<<"home", "r", "p">>, <<"home", "r", "p", "node_modules", "d">>},
                  {<<"home", "r">>, <<"home", "r", "q">>}}

\* the report file before the run: absent, or left by an earlier run
PriorReports ==
    {ReportFile(FALSE, <<>>, <<>>),
     ReportFile(TRUE, HeaderRow, << <<<<"b">>, <<"1">>, <<"1">>, <<"global">>>> >>)}

NoRun == RunResult(0, FALSE, "none", <<>>)    \* placeholder: no command was run
NoScope == [kind |-> "none", nm |-> NoDir, invoked |-> FALSE,
            res |-> NoRun, raised |-> FALSE,
            installed |-> <<>>, location |-> <<>>, found |-> <<>>]

-----------------------------------------------------------------------------
(* main *)

Exit(code, why) == /\ pc' = "exit"
                   /\ exitCode' = code
                   /\ outcome' = why

\* an exception nobody catches: traceback, exit status 1
Crash == Exit(1, "crash")

\* A faulty variant: the missing-file branch writes an empty report before it exits
CheckCsvWritesReport ==
    /\ pc = "start"
    /\ IF ~csvIsFile
       THEN Exit(1, "csv_missing") /\ report' = write_findings_csv(<<>>) /\ writes' = writes + 1
       ELSE pc' = "load" /\ UNCHANGED <<exitCode, outcome, report, writes>>
    /\ UNCHANGED <<csvIsFile, csvFile, roots, manifests, impacted, projects, idx, cwd,
                   findings, scope, npmCalls>>

\* lines 163-165
CheckCsv ==
    /\ pc = "start"
    /\ IF ~csvIsFile
       THEN Exit(1, "csv_missing")
       ELSE pc' = "load" /\ UNCHANGED <<exitCode, outcome>>
    /\ UNCHANGED <<csvIsFile, csvFile, roots, manifests, impacted, projects, idx, cwd,
                   findings, scope, report, writes, npmCalls>>

\* lines 167-170
Load ==
    /\ pc = "load"
    /\ LET r == load_impacted_packages(csvFile)
       IN  IF r.raised THEN Crash /\ UNCHANGED impacted
           ELSE /\ impacted' = r.value
                /\ IF r.value = <<>>
                   THEN Exit(1, "empty_list")
                   ELSE pc' = "probe" /\ UNCHANGED <<exitCode, outcome>>
    /\ UNCHANGED <<csvIsFile, csvFile, roots, manifests, projects, idx, cwd,
                   findings, scope, report, writes, npmCalls>>

\* A faulty variant: the absent branch exits without writing the report
ProbeNoReport ==
    /\ pc = "probe"
    /\ \E res \in ProbeRuns :
         /\ npmCalls' = Append(npmCalls, "npm -v")
         /\ scope' = [NoScope EXCEPT !.kind = "probe", !.invoked = TRUE, !.res = res]
         /\ IF ~npm_available(res)
            THEN Exit(0, "npm_absent")
            ELSE pc' = "global" /\ UNCHANGED <<exitCode, outcome>>
    /\ UNCHANGED <<csvIsFile, csvFile, roots, manifests, impacted, projects, idx, cwd,
                   findings, report, writes>>

\* lines 172-177
Probe ==
    /\ pc = "probe"
    /\ \E res \in ProbeRuns :
         /\ npmCalls' = Append(npmCalls, "npm -v")
         /\ scope' = [NoScope EXCEPT !.kind = "probe", !.invoked = TRUE, !.res = res]
         /\ IF ~npm_available(res)
            THEN /\ report' = write_findings_csv(<<>>)
                 /\ writes' = writes + 1
                 /\ Exit(0, "npm_absent")
            ELSE /\ pc' = "global"
                 /\ UNCHANGED <<report, writes, exitCode, outcome>>
    /\ UNCHANGED <<csvIsFile, csvFile, roots, manifests, impacted, projects, idx, cwd, findings>>

\* lines 179-180
Global(runs) ==
    /\ pc = "global"
    /\ \E res \in runs :
         LET r == get_global_npm_list(res)
             found == compare(impacted, r.value, <<"global">>)
         IN  /\ npmCalls' = Append(npmCalls, "npm -g ls")
             /\ scope' = [kind |-> "global", nm |-> NoDir, invoked |-> TRUE, res |-> res,
                          raised |-> r.raised, installed |-> r.value,
                          location |-> <<"global">>,
                          found |-> IF r.raised THEN <<>> ELSE found]
             /\ IF r.raised THEN Crash /\ UNCHANGED findings
                ELSE /\ findings' = findings \o found
                     /\ pc' = "discover"
                     /\ UNCHANGED <<exitCode, outcome>>
    /\ UNCHANGED <<csvIsFile, csvFile, roots, manifests, impacted, projects, idx, cwd,
                   report, writes>>

\* lines 182-185: discovery, and the loop's first test
Discover ==
    /\ pc = "discover"
    /\ LET ps == IF roots = <<>> THEN <<>> ELSE discover_package_json_roots(roots, manifests)
       IN  /\ projects' = ps
           /\ idx' = 1
           /\ pc' = IF ps = <<>> THEN "write" ELSE "local"
    /\ UNCHANGED <<csvIsFile, csvFile, roots, manifests, impacted, cwd, findings, scope,
                   report, writes, npmCalls, exitCode, outcome>>

\* lines 185-188: one iteration of `for proj in projects`
Local(nms, runs) ==
    /\ pc = "local"
    /\ idx <= Len(projects)
    /\ \E nm \in nms :
       \E res \in (IF LocalInvokesNpm(nm) THEN runs ELSE {NoRun}) :
         LET proj == projects[idx]
             invoked == LocalInvokesNpm(nm)
             r == get_local_npm_list(nm, res)
             loc == <<"local">> \o proj
             found == compare(impacted, r.value, loc)
         IN  /\ cwd' = proj
             /\ npmCalls' = IF invoked THEN Append(npmCalls, "npm ls") ELSE npmCalls
             /\ scope' = [kind |-> "local", nm |-> nm, invoked |-> invoked, res |-> res,
                          raised |-> r.raised, installed |-> r.value, location |-> loc,
                          found |-> IF r.raised THEN <<>> ELSE found]
             /\ IF r.raised THEN Crash /\ UNCHANGED <<findings, idx>>
                ELSE /\ findings' = findings \o found
                     /\ idx' = idx + 1
                     /\ pc' = IF idx + 1 > Len(projects) THEN "write" ELSE "local"
                     /\ UNCHANGED <<exitCode, outcome>>
    /\ UNCHANGED <<csvIsFile, csvFile, roots, manifests, impacted, projects, report, writes>>

\* A faulty variant: main ends with sys.exit(1) when there are findings
WriteExitsOneOnMatches ==
    /\ pc = "write"
    /\ report' = write_findings_csv(findings)
    /\ writes' = writes + 1
    /\ Exit(IF findings # <<>> THEN 1 ELSE 0, IF findings # <<>> THEN "matches" ELSE "no_matches")
    /\ UNCHANGED <<csvIsFile, csvFile, roots, manifests, impacted, projects, idx, cwd,
                   findings, scope, npmCalls>>

\* lines 190-199: the report, the summary, and the return of main
Write ==
    /\ pc = "write"
    /\ report' = write_findings_csv(findings)
    /\ writes' = writes + 1
    /\ Exit(0, IF findings # <<>> THEN "matches" ELSE "no_matches")
    /\ UNCHANGED <<csvIsFile, csvFile, roots, manifests, impacted, projects, idx, cwd,
                   findings, scope, npmCalls>>

-----------------------------------------------------------------------------
(* Specifications *)

\* the state main() starts from
Init ==
    /\ pc = "start"
    /\ csvIsFile \in BOOLEAN
    /\ csvFile \in (IF csvIsFile THEN MainCsvFiles ELSE {EmptyFile})
    /\ roots \in MainRoots
    /\ manifests \in MainManifests
    /\ impacted = <<>>
    /\ projects = <<>>
    /\ idx = 1
    /\ cwd = Home
    /\ findings = <<>>
    /\ scope = NoScope
    /\ report \in PriorReports
    /\ writes = 0
    /\ npmCalls = <<>>
    /\ exitCode = NotExited
    /\ outcome = "running"

Next ==
    \/ CheckCsv
    \/ Load
    \/ Probe
    \/ Global(MainRuns)
    \/ Discover
    \/ Local(MainNms, MainRuns)
    \/ Write

Spec == Init /\ [][Next]_vars

\* A state of main() past its first lines, for the specifications that
\* exercise one function on all of its bounded inputs.
Running(at, file, imp, rs, fs, ps, calls, sc) ==
    /\ pc = at
    /\ csvIsFile = TRUE
    /\ csvFile = file
    /\ roots = rs
    /\ manifests = fs
    /\ impacted = imp
    /\ projects = ps
    /\ idx = 1
    /\ cwd = Home
    /\ findings = <<>>
    /\ scope = sc
    /\ report = ReportFile(FALSE, <<>>, <<>>)
    /\ writes = 0
    /\ npmCalls = calls
    /\ exitCode = NotExited
    /\ outcome = "running"

\* a file that loads to the given list
FileOf(imp) == [header |-> <<"package_name", "version">>,
                rows |-> [i \in DOMAIN imp |-> <<imp[i].package_name, imp[i].version>>]]

ProbedOk == [NoScope EXCEPT !.kind = "probe", !.invoked = TRUE,
                            !.res = RunResult(0, TRUE, "none", <<>>)]
GlobalEmpty == [NoScope EXCEPT !.kind = "global", !.invoked = TRUE,
                               !.location = <<"global">>]
OneImpacted == <<[package_name |-> <<"a">>, version |-> <<"1">>]>>
OneProject == <<"home", "r", "p">>

\* load_impacted_packages on every bounded file
InitLoad ==
    \E header \in CsvHeaders \cup {<<>>} :
        \E rows \in CsvRowLists(header) :
            Running("load", [header |-> header, rows |-> rows], <<>>, <<>>, {}, <<>>, <<>>,
                    NoScope)
SpecLoad == InitLoad /\ [][Load]_vars

\* compare on every bounded compromised list and listing, at both call sites
InitCompare ==
    \E imp \in ImpactedLists :
        \/ Running("global", FileOf(imp), imp, <<>>, {}, <<>>, <<"npm -v">>, ProbedOk)
        \/ Running("local", FileOf(imp), imp, <<OneProject>>, {OneProject}, <<OneProject>>,
                   <<"npm -v", "npm -g ls">>, GlobalEmpty)
SpecCompare == InitCompare /\ [][Global(AllRuns) \/ Local({NoDir}, MainRuns)]_vars

\* discover_package_json_roots on every bounded root list and filesystem
InitDiscover ==
    \E rs \in RootLists, fs \in SUBSET ManifestDirs :
        Running("discover", FileOf(OneImpacted), OneImpacted, rs, fs, <<>>,
                <<"npm -v", "npm -g ls">>, GlobalEmpty)
SpecDiscover == InitDiscover /\ [][Discover]_vars

\* get_local_npm_list on every bounded node_modules and listing
InitLocal ==
    Running("local", FileOf(OneImpacted), OneImpacted, <<OneProject>>, {OneProject},
            <<OneProject>>, <<"npm -v", "npm -g ls">>, GlobalEmpty)
SpecLocal == InitLocal /\ [][Local(AllNms, AllRuns)]_vars

-----------------------------------------------------------------------------
(* Properties *)

\* the compromised list is missing, or loads to zero entries
FatalInput ==
    \/ ~csvIsFile
    \/ LET r == load_impacted_packages(csvFile) IN ~r.raised /\ r.value = <<>>

\* C1: a run ends with exit code 1 when the --csv path is no file or the loader
\* returns zero entries, and with exit code 0 on every normal completion, which
\* is one of: package manager absent, no matches, matches found.
C1_ExitCodes ==
    pc = "exit" =>
        /\ FatalInput => exitCode = 1
        /\ outcome \in {"npm_absent", "no_matches", "matches"} => exitCode = 0
        /\ ~FatalInput /\ outcome # "crash" =>
               exitCode = 0 /\ outcome \in {"npm_absent", "no_matches", "matches"}

\* a list with only empty-name rows has ended the run with exit code 1
C1_Witness ==
    /\ pc = "exit" /\ csvIsFile /\ csvFile.rows # <<>> /\ FatalInput
    /\ impacted = <<>> /\ exitCode = 1 /\ writes = 0

\* the listing command failed (non-zero, no output) or its output parses neither
\* as a whole nor from its first "{"
Unparseable(out) ==
    /\ ~OutEmpty(out)
    /\ JsonLoads(out).raised
    /\ ~HasBrace(out) \/ JsonLoads(FromBrace(out)).raised
ListingFailed(res) == (res.code # 0 /\ OutEmpty(res.out)) \/ Unparseable(res.out)

\* C2: at every enumeration point, a failed invocation or unparseable output
\* (also when the retry from the first "{" fails) yields the empty mapping for
\* that scope, and the run goes on instead of aborting.
C2_FailedListingIsEmpty ==
    scope.kind \in {"global", "local"} /\ scope.invoked /\ ListingFailed(scope.res) =>
        ~scope.raised /\ scope.installed = <<>> /\ outcome # "crash"

\* What does hold: a failed listing is the empty mapping unless the output has a
\* "{" from which it does not parse.
FailedListingWithoutBraceIsEmpty ==
    /\ scope.kind \in {"global", "local"} /\ scope.invoked /\ ListingFailed(scope.res)
    /\ ~HasBrace(scope.res.out)
    => ~scope.raised /\ scope.installed = <<>> /\ outcome # "crash"

\* the version query has reported the package manager absent
NpmAbsent == scope.kind = "probe" /\ ~npm_available(scope.res)

\* C3: when the version query reports the package manager absent, the run
\* writes a header-only report and exits with code 0, and it performs no global
\* listing, no project discovery and no local listing.
C3_AbsentWritesHeaderOnly ==
    NpmAbsent =>
        /\ pc = "exit" /\ exitCode = 0
        /\ report = ReportFile(TRUE, HeaderRow, <<>>) /\ writes = 1
        /\ npmCalls = <<"npm -v">>
        /\ projects = <<>> /\ cwd = Home /\ findings = <<>>
        /\ ~ENABLED Next

\* absent, with roots to scan and a filesystem that has projects
C3_Witness ==
    /\ NpmAbsent /\ pc = "exit" /\ roots # <<>> /\ manifests # {}
    /\ scope.res.code = 0

\* C4: compare returns exactly one Finding for each installed package whose name
\* equals (exactly, case-sensitively) the name of some compromised entry, and
\* none for any other installed name; the Finding carries the installed version,
\* the version of the first compromised entry with that name, and the location
\* label; versions play no part in which names are reported.
C4_CompareByExactName ==
    scope.kind \in {"global", "local"} /\ ~scope.raised =>
        LET inst == scope.installed
            f == scope.found
        IN  /\ \A i \in DOMAIN inst :
                 LET name == inst[i][1]
                     entries == {e \in DOMAIN impacted : impacted[e].package_name = name}
                     hits == {j \in DOMAIN f : f[j].package_name = name}
                 IN  IF entries = {} THEN hits = {}
                     ELSE /\ Cardinality(hits) = 1
                          /\ \A j \in hits :
                               /\ f[j].installed_version = inst[i][2]
                               /\ \E e \in entries :
                                    /\ \A e2 \in entries : e <= e2
                                    /\ f[j].impacted_version_from_csv = impacted[e].version
                               /\ f[j].location = scope.location
            /\ \A j \in DOMAIN f : \E i \in DOMAIN inst : inst[i][1] = f[j].package_name

\* "A" and "a" are both installed, the list names one of them twice with
\* different versions, and exactly one Finding results
C4_Witness ==
    /\ scope.kind = "global" /\ ~scope.raised
    /\ Len(impacted) = 2 /\ impacted[1].package_name = impacted[2].package_name
    /\ impacted[1].version # impacted[2].version
    /\ {scope.installed[i][1] : i \in DOMAIN scope.installed} = {<<"a">>, <<"A">>}
    /\ Len(scope.found) = 1

\* The loader's contract, stated on the file: the name column is the one column
\* headed package_name or name in any casing, the version column the one headed
\* version; a field a row does not reach is empty.
NameColumns(h) == {i \in DOMAIN h : HeaderLower(h[i]) \in {"package_name", "name"}}
VersionColumns(h) == {i \in DOMAIN h : HeaderLower(h[i]) = "version"}
FieldAt(row, cols) ==
    IF cols = {} THEN <<>>
    ELSE LET i == CHOOSE i \in cols : TRUE IN IF i <= Len(row) THEN row[i] ELSE <<>>
RECURSIVE ExpectedEntries(_, _)
ExpectedEntries(h, rows) ==
    IF rows = <<>> THEN <<>>
    ELSE LET name == Strip(FieldAt(Head(rows), NameColumns(h)))
             ver  == Strip(FieldAt(Head(rows), VersionColumns(h)))
         IN  (IF name = <<>> THEN <<>> ELSE <<[package_name |-> name, version |-> ver]>>)
             \o ExpectedEntries(h, Tail(rows))
HasNamedRow(file) ==
    /\ Cardinality(NameColumns(file.header)) = 1
    /\ ExpectedEntries(file.header, file.rows) # <<>>

\* C5: for every file with at least one row bearing a non-empty name, whatever
\* the casing or variant of the name header, load_impacted_packages yields
\* exactly the non-empty trimmed names in file order, each with the trimmed
\* version of its row; rows with an empty or blank name are skipped.
C5_LoaderYieldsNamedRows ==
    pc # "load" /\ HasNamedRow(csvFile) =>
        outcome # "crash" /\ impacted = ExpectedEntries(csvFile.header, csvFile.rows)

\* What does hold: whenever the loader returns, it returns those entries.
LoaderYieldsNamedRowsUnlessRaised ==
    pc # "load" /\ HasNamedRow(csvFile) /\ outcome # "crash" =>
        impacted = ExpectedEntries(csvFile.header, csvFile.rows)

\* C6: discover_package_json_roots returns no project directory twice, also
\* when a root is given twice or one root lies inside another.
C6_ProjectsDistinct ==
    pc # "discover" => \A i, j \in DOMAIN projects : projects[i] = projects[j] => i = j

\* The canonical directory each root argument of the model denotes
CanonOf(r) ==
    CASE r = <<"~", "r">> -> <<"home", "r">>
      [] r = <<"home", "r", "p">> -> <<"home", "r", "p">>
      [] r = <<"home", "r", "p", "..">> -> <<"home", "r">>
      [] r = <<"home", "missing">> -> <<"home", "missing">>
      [] r = <<"home", ".", "r", "p", "node_modules">> -> <<"home", "r", "p", "node_modules">>
ExistingRoots == {CanonOf(roots[i]) : i \in DOMAIN roots} \cap Dirs

\* C7: discovery reports no directory whose manifest path has a node_modules
\* segment, reports the directory of every other manifest under an existing
\* root, and skips a root that does not exist, without an error and without
\* effect on the other roots.
C7_DiscoveryExcludesNodeModules ==
    pc # "discover" =>
        /\ outcome = "running"
        /\ {projects[i] : i \in DOMAIN projects} =
               {d \in manifests : /\ "node_modules" \notin {d[k] : k \in DOMAIN d}
                                  /\ \E root \in ExistingRoots : IsPrefix(root, d)}

\* a missing root beside an existing one that holds a project and a manifest
\* below node_modules
C7_Witness ==
    /\ pc = "local"
    /\ <<"home", "missing">> \in {roots[i] : i \in DOMAIN roots}
    /\ <<"home", "r", "p", "node_modules", "d">> \in manifests
    /\ projects = << <<"home", "r", "p">> >>

\* C8: in get_local_npm_list, when node_modules exists and manifest reading
\* yields a package, exactly those packages are returned and no command is run;
\* the listing command is run only when the directory is absent or yields
\* nothing, then exactly once, and a total failure gives the empty mapping.
C8_ManifestFirst ==
    scope.kind = "local" =>
        LET nm == scope.nm
            listed == Len(SelectSeq(npmCalls, LAMBDA c : c = "npm ls"))
        IN  /\ nm.isDir /\ ManifestDeps(nm) # <<>> =>
                   /\ scope.installed = ManifestDeps(nm)
                   /\ ~scope.invoked /\ ~scope.raised /\ listed = 0
            /\ scope.invoked => ~nm.isDir \/ ManifestDeps(nm) = <<>>
            /\ listed = IF scope.invoked THEN 1 ELSE 0
            /\ scope.invoked /\ scope.res.code # 0 /\ OutEmpty(scope.res.out) =>
                   ~scope.raised /\ scope.installed = <<>>

\* node_modules with one unreadable and one readable manifest: the readable
\* package is returned and no command was run
C8_Witness ==
    /\ scope.kind = "local" /\ scope.nm.isDir /\ Len(scope.nm.entries) = 2
    /\ scope.nm.entries[1].manifest.state = "bad"
    /\ scope.installed = << <<<<"a">>, <<"1">>>> >>
    /\ ~scope.invoked /\ npmCalls = <<"npm -v", "npm -g ls">>

\* the run passed input validation and found the package manager present
PastProbe == Len(npmCalls) >= 2

GlobalFirst(fs) ==
    \A i, j \in DOMAIN fs : i < j /\ fs[j].location = <<"global">> => fs[i].location = <<"global">>

\* C9: in every run that passes input validation with the package manager
\* present, the report is written exactly once, after the global scope and all
\* projects have been enumerated and matched; it replaces the prior content and
\* is the header row followed by one row per Finding in accumulation order,
\* global Findings first; with no Findings it is the header row alone.
C9_ReportWrittenOnce ==
    /\ PastProbe /\ pc # "exit" => writes = 0
    /\ PastProbe /\ pc = "exit" =>
           /\ writes = 1
           /\ report = ReportFile(TRUE, HeaderRow, [i \in DOMAIN findings |-> ReportRow(findings[i])])
           /\ GlobalFirst(findings)
           /\ idx > Len(projects) \/ projects = <<>>

\* What does hold: the same, of every run that no exception ends.
ReportWrittenOnceUnlessRaised ==
    /\ PastProbe /\ pc # "exit" => writes = 0
    /\ PastProbe /\ pc = "exit" /\ outcome # "crash" =>
           /\ writes = 1
           /\ report = ReportFile(TRUE, HeaderRow, [i \in DOMAIN findings |-> ReportRow(findings[i])])
           /\ GlobalFirst(findings)
           /\ idx > Len(projects) \/ projects = <<>>

\* C10: a run that ends with exit code 1 because the compromised list is
\* missing or loads to zero entries leaves the report file as it was, never
\* calls write_findings_csv, and has run no package-manager command.
C10_FatalExitTouchesNothing ==
    [][pc' = "exit" /\ exitCode' = 1 /\ FatalInput' =>
           report' = report /\ writes' = 0 /\ npmCalls' = <<>>]_vars

\* an empty list has ended the run and the earlier run's report is still there
C10_Witness ==
    /\ pc = "exit" /\ exitCode = 1 /\ csvIsFile /\ FatalInput
    /\ report.exists /\ report.rows # <<>> /\ writes = 0 /\ npmCalls = <<>>

====
